---- MODULE Spec2Model ----
(***************************************************************************)
(* jsonschema/_types.py: the TypeChecker registry, a frozen attrs class    *)
(* around a pyrsistent pmap from type names to checking functions, its     *)
(* non-destructive update methods, the built-in checking functions and the *)
(* two module-level registries draft3_type_checker / draft4_type_checker.  *)
(*                                                                         *)
(* Python objects are modelled as cells of a store: a pmap or a pmap       *)
(* evolver is a cell holding a mapping, a TypeChecker is a record holding  *)
(* the reference of its pmap.  A method call of a thread is a frame.       *)
(***************************************************************************)
EXTENDS Integers, Sequences, FiniteSets, TLC

\* ------------------------------------------------------------------ bounds
\* TypeChecker objects that may exist at once (the two presets included).
MaxRegs == 4
\* Longest iterable handed to remove_many by the single caller.
MaxTypes == 3
\* Longest iterable handed to remove_many by each of the concurrent threads.
MaxSharedTypes == 1

\* --------------------------------------------------------- the value model
\* Sample Python instances, written as their literals.
Values == {"True", "False", "1", "3.14", "'s'", "None", "[]", "{}"}

\* type(instance)
type_of(instance) ==
    CASE instance \in {"True", "False"} -> "bool"
      [] instance = "1" -> "int"
      [] instance = "3.14" -> "float"
      [] instance = "'s'" -> "str"
      [] instance = "None" -> "NoneType"
      [] instance = "[]" -> "list"
      [] instance = "{}" -> "dict"

\* The classes an instance of class c is an instance of: bool inherits from
\* int, and int and float are registered with numbers.Number.
bases(c) ==
    CASE c = "bool" -> {"bool", "int", "numbers.Number"}
      [] c = "int" -> {"int", "numbers.Number"}
      [] c = "float" -> {"float", "numbers.Number"}
      [] OTHER -> {c}

\* isinstance(instance, classinfo), classinfo a set of classes
isinstance(instance, classinfo) == bases(type_of(instance)) \cap classinfo # {}

\* jsonschema.compat.int_types and str_types (Python 3: int, str).
int_types == {"int"}
str_types == {"str"}

\* ------------------------------------------------- the checking functions
BuiltinFns == {"is_any", "is_array", "is_bool", "is_integer", "is_null",
               "is_number", "is_object", "is_string"}

\* A caller's checking function that consults the checker it is handed:
\*   lambda checker, instance: <"number" is known to checker> and
\*                             checker.is_type(instance, "number")
ConsultingFns == {"via_number"}
ConsultedType == "number"

is_array(checker, instance) == isinstance(instance, {"list"})

is_bool(checker, instance) == isinstance(instance, {"bool"})

is_integer_bool_is_int(checker, instance) == isinstance(instance, int_types)

is_integer(checker, instance) ==
    IF isinstance(instance, {"bool"}) THEN FALSE
    ELSE isinstance(instance, int_types)

is_null(checker, instance) == instance = "None"

is_number(checker, instance) ==
    IF isinstance(instance, {"bool"}) THEN FALSE
    ELSE isinstance(instance, {"numbers.Number"})

is_object(checker, instance) == isinstance(instance, {"dict"})

is_string(checker, instance) == isinstance(instance, str_types)

is_any(checker, instance) == TRUE

\* fn(checker, instance): checker is the mapping of the TypeChecker passed
\* as first argument.
RECURSIVE call_fn(_, _, _)
call_fn(fn, checker, instance) ==
    CASE fn = "is_any" -> is_any(checker, instance)
      [] fn = "is_array" -> is_array(checker, instance)
      [] fn = "is_bool" -> is_bool(checker, instance)
      [] fn = "is_integer" -> is_integer(checker, instance)
      [] fn = "is_null" -> is_null(checker, instance)
      [] fn = "is_number" -> is_number(checker, instance)
      [] fn = "is_object" -> is_object(checker, instance)
      [] fn = "is_string" -> is_string(checker, instance)
      [] fn = "via_number" ->
            IF ConsultedType \in DOMAIN checker
            THEN call_fn(checker[ConsultedType], checker, instance)
            ELSE FALSE

\* ------------------------------------------------------ outcomes of a call
Return(x) == [kind |-> "return", value |-> x]
UndefinedTypeCheck(type) == [kind |-> "raise", value |-> type]

\* ------------------------------------------------------------ TypeChecker
is_type_unbound_fn(type_checkers, instance, type) ==
    IF type \in DOMAIN type_checkers
    THEN Return(call_fn(type_checkers[type], [k \in {} |-> "is_any"], instance))
    ELSE UndefinedTypeCheck(type)

\* TypeChecker.is_type on a checker whose pmap holds type_checkers.
is_type(type_checkers, instance, type) ==
    IF type \in DOMAIN type_checkers
    THEN Return(call_fn(type_checkers[type], type_checkers, instance))
    ELSE UndefinedTypeCheck(type)

\* ------------------------------------------------------------- the objects
Threads == {"t1", "t2"}
MainThread == "t1"

TypeNames == {"any", "array", "boolean", "integer", "object", "null",
              "number", "string", "foo"}

\* One cell per pmap / evolver object: every TypeChecker owns one, and every
\* thread may hold one evolver.
Cells == 1 .. (MaxRegs + Cardinality(Threads))
\* A cell holding no object (never allocated, or garbage).
Free == [x \in {"<free>"} |-> "<free>"]
EmptyMap == [x \in {} |-> "is_any"]

\* The dict literal handed to TypeChecker(...) for draft3_type_checker.
Draft3Definitions ==
    [type \in TypeNames \ {"foo"} |->
        CASE type = "any" -> "is_any"
          [] type = "array" -> "is_array"
          [] type = "boolean" -> "is_bool"
          [] type = "integer" -> "is_integer"
          [] type = "object" -> "is_object"
          [] type = "null" -> "is_null"
          [] type = "number" -> "is_number"
          [] type = "string" -> "is_string"]

\* A call of a TypeChecker method: the receiver, the arguments, and the
\* receiver's mapping read when the call began.  again marks a redefine that
\* a caller repeats, with the same arguments, on the checker the first
\* redefine returned.
Call(op, self, definitions, types, instance, type, before) ==
    [op |-> op, self |-> self, definitions |-> definitions, types |-> types,
     instance |-> instance, type |-> type, before |-> before, again |-> FALSE]
NoCall == Call("none", 0, EmptyMap, <<>>, "None", "", EmptyMap)

NoLast == [thread |-> "", call |-> NoCall, ret |-> [kind |-> "none", value |-> 0]]

IdleFrame == [pc |-> "idle", call |-> NoCall, evolver |-> 0, i |-> 0]

VARIABLES
    store,                \* cell -> the mapping held by the pmap / evolver
    regs,                 \* the TypeChecker objects, in order of creation
    draft4_type_checker,  \* the module global (0 while unbound); draft3 is regs[1]
    frame,                \* thread -> its call in progress
    last                  \* the call that completed last and its outcome, until
                          \* a remove_many is entered

vars == <<store, regs, draft4_type_checker, frame, last>>

draft3_type_checker == 1

\* self._type_checkers of TypeChecker number self
type_checkers_of(st, rs, self) == st[rs[self].type_checkers]

\* ------------------------------------------------------ pyrsistent objects
\* The cell a new object is put in.
Alloc(st) == CHOOSE c \in Cells : st[c] = Free /\ \A d \in Cells : d < c => st[d] # Free

pmap_evolver_shared(st, ref) == [store |-> st, ref |-> ref]

\* pmap.evolver(): a working copy of the pmap in cell ref.
pmap_evolver(st, ref) ==
    [store |-> [st EXCEPT ![Alloc(st)] = st[ref]], ref |-> Alloc(st)]

evolver_delitem_on_copy(st, ref, key) ==
    [store |-> st, KeyError |-> key \notin DOMAIN st[ref]]

\* del evolver[key]
evolver_delitem(st, ref, key) ==
    IF key \in DOMAIN st[ref]
    THEN [store |-> [st EXCEPT ![ref] = [k \in DOMAIN st[ref] \ {key} |-> st[ref][k]]],
          KeyError |-> FALSE]
    ELSE [store |-> st, KeyError |-> TRUE]

pmap_update_keep_old(m, definitions) == m @@ definitions

pmap_update_only_definitions(m, definitions) == definitions

pmap_update_toggle(m, definitions) ==
    [k \in (DOMAIN m \cup DOMAIN definitions)
           \ {k \in DOMAIN m \cap DOMAIN definitions : m[k] = definitions[k]} |->
        IF k \in DOMAIN definitions THEN definitions[k] ELSE m[k]]

\* pmap.update(definitions): the entries of definitions inserted or overwritten.
pmap_update(m, definitions) == definitions @@ m

\* The evolver (or the reference of a call that failed) is dropped.
drop(st, ref) == [st EXCEPT ![ref] = Free]

\* attr.evolve(self, type_checkers=...): a new frozen TypeChecker.
attr_evolve(rs, ref) == Append(rs, [type_checkers |-> ref])

\* --------------------------------------------------------------- the state
Init ==
    /\ store = [c \in Cells |-> IF c = 1 THEN Draft3Definitions ELSE Free]
    /\ regs = <<[type_checkers |-> 1]>>
    /\ draft4_type_checker = 0
    /\ frame = [t \in Threads |-> IdleFrame]
    /\ last = NoLast

Loaded == draft4_type_checker # 0
Idle(t) == frame[t].pc = "idle"
CanDerive == Len(regs) + Cardinality({t \in Threads : ~Idle(t)}) < MaxRegs

\* ----------------------------------------------------- the callers' inputs
\* The callers install a consulting function under a new type name and a
\* built-in under the type it consults.  A consulting function is never
\* installed under the consulted type, so every function stays total, as the
\* contract of a checking function requires.
InputFns == {"is_any", "via_number"}
RedefineTypes == {"foo", "number"}
AllowedFns(type) == IF type = ConsultedType THEN InputFns \ ConsultingFns ELSE ConsultingFns
InputDefinitions ==
    UNION {{d \in [S -> InputFns] : \A k \in S : d[k] \in AllowedFns(k)} :
           S \in SUBSET RedefineTypes}
RemoveTypes == {"any", "foo"}
InputTypes == UNION {[1 .. n -> RemoveTypes] : n \in 0 .. MaxTypes}
SharedInputTypes == UNION {[1 .. n -> RemoveTypes] : n \in 0 .. MaxSharedTypes}
QueryTypes == {"any", "number", "foo"}
QueryValues == {"True", "1"}

\* -------------------------------------------------------------- the methods
Complete(t, call, ret) ==
    /\ last' = [thread |-> t, call |-> call, ret |-> ret]
    /\ frame' = [frame EXCEPT ![t] = IdleFrame]

\* TypeChecker.is_type(instance, type)
IsType(t, self, instance, type) ==
    /\ Loaded /\ Idle(t)
    /\ LET m == type_checkers_of(store, regs, self)
       IN Complete(t, Call("is_type", self, EmptyMap, <<>>, instance, type, m),
                   is_type(m, instance, type))
    /\ UNCHANGED <<store, regs, draft4_type_checker>>

\* The body of redefine_many, entered as op (redefine or redefine_many).
redefine_many(t, self, op, definitions, again) ==
    /\ Loaded /\ Idle(t) /\ CanDerive
    /\ LET m == type_checkers_of(store, regs, self)
           call == [Call(op, self, definitions, <<>>, "None", "", m)
                       EXCEPT !.again = again]
           ref == Alloc(store)
       IN /\ store' = [store EXCEPT ![ref] = pmap_update(m, definitions)]
          /\ regs' = attr_evolve(regs, ref)
          /\ Complete(t, call, Return(Len(regs')))
    /\ UNCHANGED draft4_type_checker

\* TypeChecker.redefine(type, fn)
Redefine(t, self, type, fn) ==
    redefine_many(t, self, "redefine", type :> fn, FALSE)

\* r.redefine(type, fn).redefine(type, fn): the second call, made on the
\* checker the first one has just returned.
RedefineAgain(t) ==
    /\ last.call.op = "redefine" /\ ~last.call.again /\ last.thread = t
    /\ redefine_many(t, last.ret.value, "redefine", last.call.definitions, TRUE)

\* TypeChecker.redefine_many(definitions)
RedefineMany(t, self, definitions) ==
    redefine_many(t, self, "redefine_many", definitions, FALSE)

\* remove_many is entered: evolver = self._type_checkers.evolver()
remove_many(t, self, op, types) ==
    /\ Idle(t) /\ CanDerive
    /\ LET m == type_checkers_of(store, regs, self)
           ev == pmap_evolver(store, regs[self].type_checkers)
       IN /\ store' = ev.store
          /\ frame' = [frame EXCEPT ![t] =
                         [pc |-> "for", evolver |-> ev.ref, i |-> 1,
                          call |-> Call(op, self, EmptyMap, types, "None", "", m)]]
          /\ last' = NoLast
    /\ UNCHANGED <<regs, draft4_type_checker>>

\* draft4_type_checker = draft3_type_checker.remove(u"any"), at import
ModuleLoad ==
    /\ ~Loaded /\ \A t \in Threads : Idle(t)
    /\ remove_many(MainThread, draft3_type_checker, "remove", <<"any">>)

\* TypeChecker.remove(type)
Remove(t, self, type) == Loaded /\ remove_many(t, self, "remove", <<type>>)

\* TypeChecker.remove_many(types)
RemoveMany(t, self, types) == Loaded /\ remove_many(t, self, "remove_many", types)

\* One turn of the for loop whose del succeeds.
RemoveDel(t) ==
    /\ frame[t].pc = "for" /\ frame[t].i <= Len(frame[t].call.types)
    /\ LET del == evolver_delitem(store, frame[t].evolver, frame[t].call.types[frame[t].i])
       IN /\ ~del.KeyError
          /\ store' = del.store
          /\ frame' = [frame EXCEPT ![t].i = @ + 1]
    /\ UNCHANGED <<regs, draft4_type_checker, last>>

\* One turn of the for loop whose del raises KeyError.
RemoveRaise(t) ==
    /\ frame[t].pc = "for" /\ frame[t].i <= Len(frame[t].call.types)
    /\ LET type_ == frame[t].call.types[frame[t].i]
           del == evolver_delitem(store, frame[t].evolver, type_)
       IN /\ del.KeyError
          /\ store' = drop(del.store, frame[t].evolver)
          /\ Complete(t, frame[t].call, UndefinedTypeCheck(type_))
    /\ UNCHANGED <<regs, draft4_type_checker>>

\* return attr.evolve(self, type_checkers=evolver.persistent())
RemoveReturn(t) ==
    /\ frame[t].pc = "for" /\ frame[t].i > Len(frame[t].call.types)
    /\ regs' = attr_evolve(regs, frame[t].evolver)
    /\ Complete(t, frame[t].call, Return(Len(regs')))
    /\ draft4_type_checker' = IF Loaded THEN draft4_type_checker ELSE Len(regs')
    /\ UNCHANGED store

\* remove_many run from entry to exit with no other step in between: the
\* mapping of the checker it returns, or the exception it raises.
RECURSIVE remove_many_alone(_, _)
remove_many_alone(m, types) ==
    IF types = <<>> THEN Return(m)
    ELSE IF Head(types) \in DOMAIN m
         THEN remove_many_alone([k \in DOMAIN m \ {Head(types)} |-> m[k]], Tail(types))
         ELSE UndefinedTypeCheck(Head(types))

\* ------------------------------------------------------ the specifications
\* One caller, any receiver: the update algebra.
Next ==
    \/ ModuleLoad
    \/ \E self \in 1 .. Len(regs), instance \in QueryValues, type \in QueryTypes :
          IsType(MainThread, self, instance, type)
    \/ \E self \in 1 .. Len(regs), type \in RedefineTypes :
          \E fn \in AllowedFns(type) : Redefine(MainThread, self, type, fn)
    \/ RedefineAgain(MainThread)
    \/ \E self \in 1 .. Len(regs), definitions \in InputDefinitions :
          RedefineMany(MainThread, self, definitions)
    \/ \E self \in 1 .. Len(regs), type \in RemoveTypes : Remove(MainThread, self, type)
    \/ \E self \in 1 .. Len(regs), types \in InputTypes :
          RemoveMany(MainThread, self, types)
    \/ RemoveDel(MainThread)
    \/ RemoveRaise(MainThread)
    \/ RemoveReturn(MainThread)

Spec == Init /\ [][Next]_vars

\* The module is imported and the two presets are asked about every sample
\* instance and every type name.
NextPresets ==
    \/ ModuleLoad
    \/ RemoveDel(MainThread)
    \/ RemoveReturn(MainThread)
    \/ \E self \in {draft3_type_checker, draft4_type_checker},
          instance \in Values, type \in TypeNames :
          IsType(MainThread, self, instance, type)

SpecPresets == Init /\ [][NextPresets]_vars

\* Several threads use the shared preset draft3_type_checker at once.
NextShared ==
    \/ ModuleLoad
    \/ \E t \in Threads :
          \/ \E instance \in QueryValues, type \in QueryTypes :
                IsType(t, draft3_type_checker, instance, type)
          \/ \E type \in RedefineTypes : \E fn \in AllowedFns(type) :
                Redefine(t, draft3_type_checker, type, fn)
          \/ \E definitions \in InputDefinitions :
                RedefineMany(t, draft3_type_checker, definitions)
          \/ \E type \in RemoveTypes : Remove(t, draft3_type_checker, type)
          \/ \E types \in SharedInputTypes : RemoveMany(t, draft3_type_checker, types)
          \/ RemoveDel(t)
          \/ RemoveRaise(t)
          \/ RemoveReturn(t)

SpecShared == Init /\ [][NextShared]_vars

\* ---------------------------------------------------------------- claims
map_of(self) == type_checkers_of(store, regs, self)
Returned == last.ret.kind = "return"
Raised == last.ret.kind = "raise"
Removal == last.call.op \in {"remove", "remove_many"}
Redefinition == last.call.op \in {"redefine", "redefine_many"}
Names(types) == {types[i] : i \in 1 .. Len(types)}
\* The type names whose entries a checking function reads from the checker
\* it is handed.
Consults(fn) == IF fn \in ConsultingFns THEN {ConsultedType} ELSE {}

\* C1: no step of any call (is_type, redefine, redefine_many, remove,
\* remove_many; returning or raising) changes a TypeChecker that exists or the
\* mapping it holds: checkers are only ever added.
C1_Persistence ==
    [][\A r \in 1 .. Len(regs) :
          /\ r <= Len(regs')
          /\ regs'[r] = regs[r]
          /\ store'[regs[r].type_checkers] = store[regs[r].type_checkers]]_vars

\* C1 witness: a derived checker exists besides the presets, and the last call was a
\* remove_many that raised after deleting a name from its working copy.
C1_Witness ==
    /\ Len(regs) > 2 /\ Raised /\ last.call.op = "remove_many"
    /\ Len(last.call.types) > 1
    /\ last.call.types[1] \in DOMAIN last.call.before

\* C2 (as claimed): a remove_many handed a collection with a name absent from
\* the receiver raises UndefinedTypeCheck carrying a name absent from the
\* receiver, and the receiver's mapping is as it was.
C2_AllOrNothing ==
    (Removal /\ Names(last.call.types) \ DOMAIN last.call.before # {}) =>
        /\ Raised
        /\ last.ret.value \in Names(last.call.types) \ DOMAIN last.call.before
        /\ map_of(last.call.self) = last.call.before

\* C3 (as claimed): remove / remove_many raises if and only if a name of the
\* collection is absent from the receiver; otherwise it returns a checker
\* whose keys are the receiver's minus the named ones, with the other entries
\* unchanged, on which is_type raises for every removed name.
C3_RemoveIffAbsent ==
    Removal =>
        /\ Raised <=> (Names(last.call.types) \ DOMAIN last.call.before # {})
        /\ Returned =>
             /\ DOMAIN map_of(last.ret.value)
                  = DOMAIN last.call.before \ Names(last.call.types)
             /\ \A k \in DOMAIN map_of(last.ret.value) :
                   map_of(last.ret.value)[k] = last.call.before[k]
             /\ \A k \in Names(last.call.types), v \in Values :
                   is_type(map_of(last.ret.value), v, k) = UndefinedTypeCheck(k)

\* C4: redefine / redefine_many returns (never raises) a checker whose keys
\* are the receiver's and the definitions', each name of the definitions
\* mapped as the definitions say and every other name as in the receiver.
C4_RedefineOverrides ==
    Redefinition =>
        /\ Returned
        /\ DOMAIN map_of(last.ret.value)
             = DOMAIN last.call.before \cup DOMAIN last.call.definitions
        /\ \A k \in DOMAIN last.call.definitions :
              map_of(last.ret.value)[k] = last.call.definitions[k]
        /\ \A k \in DOMAIN last.call.before \ DOMAIN last.call.definitions :
              map_of(last.ret.value)[k] = last.call.before[k]

\* C4 witness: a redefine_many that overwrote one entry and inserted another.
C4_Witness ==
    /\ last.call.op = "redefine_many" /\ Returned
    /\ DOMAIN last.call.definitions \cap DOMAIN last.call.before # {}
    /\ DOMAIN last.call.definitions \ DOMAIN last.call.before # {}

\* C5: is_type(instance, type) raises UndefinedTypeCheck(type) exactly when
\* type is no key of the receiver; otherwise it returns what the function
\* stored under type answers for (the receiver, instance).
C5_IsTypeLookup ==
    last.call.op = "is_type" =>
        LET m == map_of(last.call.self)
            type == last.call.type
        IN /\ Raised <=> type \notin DOMAIN m
           /\ Raised => last.ret.value = type
           /\ Returned <=> type \in DOMAIN m
           /\ Returned =>
                IF m[type] \in ConsultingFns
                THEN last.ret.value =
                       (/\ ConsultedType \in DOMAIN m
                        /\ call_fn(m[ConsultedType], m, last.call.instance))
                ELSE last.ret.value = call_fn(m[type], m, last.call.instance)

\* C5 witness: a consulting function, installed under foo, answered from the
\* receiver's own entry for the consulted type, which differs from draft3's.
C5_Witness ==
    /\ last.call.op = "is_type" /\ Returned /\ last.call.type = "foo"
    /\ map_of(last.call.self)["foo"] \in ConsultingFns
    /\ ConsultedType \in DOMAIN map_of(last.call.self)
    /\ map_of(last.call.self)[ConsultedType] # Draft3Definitions[ConsultedType]
    /\ last.ret.value # call_fn(Draft3Definitions[ConsultedType], Draft3Definitions,
                                last.call.instance)

\* C6 (as claimed): after redefine_many(d), is_type(v, t) on the returned
\* checker answers as on the receiver for every key t of the receiver that is
\* no key of d and every v, whatever function is stored under t.
C6_PartialKeyIndependence ==
    (last.call.op = "redefine_many" /\ Returned) =>
        \A t \in DOMAIN last.call.before \ DOMAIN last.call.definitions, v \in Values :
            is_type(map_of(last.ret.value), v, t) = is_type(last.call.before, v, t)

\* C6 (amended): after redefine_many(d), every key t of the receiver that is
\* no key of d is mapped to the same function as in the receiver, and is_type
\* (v, t) answers as on the receiver when that function consults no entry
\* named in d.
C6_PartialKeyIndependenceAmended ==
    (last.call.op = "redefine_many" /\ Returned) =>
        \A t \in DOMAIN last.call.before \ DOMAIN last.call.definitions :
            /\ t \in DOMAIN map_of(last.ret.value)
            /\ map_of(last.ret.value)[t] = last.call.before[t]
            /\ Consults(last.call.before[t]) \cap DOMAIN last.call.definitions = {} =>
                 \A v \in Values :
                    is_type(map_of(last.ret.value), v, t)
                      = is_type(last.call.before, v, t)

\* C6 witness: a redefine_many that left alone a key holding a consulting
\* function and a key holding a built-in.
C6_Witness ==
    /\ last.call.op = "redefine_many" /\ Returned
    /\ last.call.definitions # EmptyMap
    /\ \E t \in DOMAIN last.call.before \ DOMAIN last.call.definitions :
          last.call.before[t] \in ConsultingFns
    /\ \E t \in DOMAIN last.call.before \ DOMAIN last.call.definitions :
          last.call.before[t] \in BuiltinFns

\* C7: with threads interleaving calls on the shared draft3_type_checker,
\* every derivation ends as it would if run alone on it, and every is_type on
\* it answers as before any derivation began.
C7_NoInterference ==
    /\ Removal =>
          LET alone == remove_many_alone(Draft3Definitions, last.call.types)
          IN /\ last.ret.kind = alone.kind
             /\ Raised => last.ret.value = alone.value
             /\ Returned => map_of(last.ret.value) = alone.value
    /\ Redefinition =>
          /\ Returned
          /\ map_of(last.ret.value) =
               [k \in DOMAIN Draft3Definitions \cup DOMAIN last.call.definitions |->
                  IF k \in DOMAIN last.call.definitions
                  THEN last.call.definitions[k] ELSE Draft3Definitions[k]]
    /\ last.call.op = "is_type" =>
          IF last.call.type \in DOMAIN Draft3Definitions
          THEN /\ Returned
               /\ last.ret.value = call_fn(Draft3Definitions[last.call.type],
                                           Draft3Definitions, last.call.instance)
          ELSE Raised /\ last.ret.value = last.call.type

\* C7 witness: a thread's remove_many returned while another thread was in
\* the middle of its own loop, past a successful del.
C7_Witness ==
    /\ last.call.op = "remove_many" /\ Returned /\ last.call.types # <<>>
    /\ \E t \in Threads \ {last.thread} :
          /\ frame[t].pc = "for" /\ frame[t].i > 1
          /\ frame[t].call.self = last.call.self

\* C8: draft3 has exactly the eight built-in keys, draft4 those but any;
\* is_type(v, "any") on draft4 raises, is_type(v, t) on draft4 answers as on
\* draft3 for every other built-in t, and draft3 still contains any.
C8_Presets ==
    /\ DOMAIN map_of(draft3_type_checker) =
         {"any", "array", "boolean", "integer", "object", "null", "number", "string"}
    /\ Loaded =>
         /\ DOMAIN map_of(draft4_type_checker) =
              {"array", "boolean", "integer", "object", "null", "number", "string"}
         /\ (last.call.op = "is_type" /\ last.call.self = draft4_type_checker) =>
               IF last.call.type = "any"
               THEN Raised /\ last.ret.value = "any"
               ELSE last.call.type \in DOMAIN Draft3Definitions =>
                      last.ret = is_type(map_of(draft3_type_checker),
                                         last.call.instance, last.call.type)

\* C8 witness: draft4 was asked about "any".
C8_Witness ==
    /\ Loaded /\ last.call.op = "is_type" /\ last.call.self = draft4_type_checker
    /\ last.call.type = "any" /\ Raised

\* C9: on a checker holding the built-in entries, a bool is no integer and no
\* number but a boolean; an int is an integer and a number; a float is a
\* number and no integer; everything is any.
C9_BooleanExclusion ==
    (/\ last.call.op = "is_type" /\ Returned
     /\ map_of(last.call.self)[last.call.type] = Draft3Definitions[last.call.type]) =>
        LET class == type_of(last.call.instance)
            type == last.call.type
            answer == last.ret.value
        IN /\ (class = "bool" /\ type \in {"integer", "number"}) => ~answer
           /\ (class = "bool" /\ type = "boolean") => answer
           /\ (class = "int" /\ type \in {"integer", "number"}) => answer
           /\ (class = "float" /\ type = "number") => answer
           /\ (class = "float" /\ type = "integer") => ~answer
           /\ type = "any" => answer

\* C9 witness: True was found to be no integer.
C9_Witness ==
    /\ last.call.op = "is_type" /\ Returned /\ last.call.instance = "True"
    /\ last.call.type = "integer" /\ ~last.ret.value

\* C10: r.redefine(name, f).redefine(name, f) holds the same mapping as
\* r.redefine(name, f), and is_type answers the same on both.
C10_RedefineIdempotent ==
    (last.call.op = "redefine" /\ last.call.again) =>
        /\ Returned
        /\ map_of(last.ret.value) = map_of(last.call.self)
        /\ \A v \in Values, t \in TypeNames :
              is_type(map_of(last.ret.value), v, t) = is_type(map_of(last.call.self), v, t)

\* C10 witness: a redefine of a consulting function was repeated on the
\* checker the first redefine had just returned.
C10_Witness ==
    /\ last.call.op = "redefine" /\ last.call.again /\ Returned
    /\ last.ret.value = last.call.self + 1
    /\ \E k \in DOMAIN last.call.definitions :
          last.call.definitions[k] \in ConsultingFns

====
